---------------------------- MODULE Spec2Model ----------------------------
(* HashyStepTable (src/hashy_step_table.py): an open-addressing hash table *)
(* with a key-dependent probe step, lazy deletion and growth through a     *)
(* fixed sequence of sizes.  Keys are strings, modelled as the sequences   *)
(* of their character codes; positions are 0-based as in the source.       *)
EXTENDS Integers, Sequences, FiniteSets, TLC

(***************************************************************************)
(* Bounds of the exploration.                                              *)
(***************************************************************************)
\* a set is explored only while size_index < MaxSizeIndex (every failed
\* resize advances size_index, without limit)
MaxSizeIndex == 2
\* a delete is explored only while count > -MaxDeficit (count can fall
\* below zero, without limit)
MaxDeficit == 1

\* the keys "a", "f", "k" (all three start at position 2 of a 5-slot table,
\* with steps 2, 3 and 4) and "b" (start 3, step 3)
Keys == { <<97>>, <<102>>, <<107>>, <<98>> }
Vals == {10, 20}
\* the size sequences a table is constructed with
SizeSeqs == { <<5>>, <<5, 13>>, <<3, 5>>, <<3, 4, 13>> }
\* a size sequence whose first table can hold a Tombstone when it grows
\* (with the four keys no table of 3 or 5 slots does)
GrowSeqs == { <<4, 13>> }
\* the keys the hash functions are applied to: the keys of the calls, the
\* empty string and "ab"
HashKeys == Keys \cup { <<>>, <<97, 98>> }
\* a result is recorded for the team only while fewer than MaxGames games
\* have been played (the statistics grow without limit)
MaxGames == 6
\* the hash functions are applied for the capacities 2..MaxCapacity
MaxCapacity == 13
\* a Season is constructed with at most MaxTeams teams
MaxTeams == 4

HASH_BASE == 31
HASH_A0 == 31415

VARIABLES TABLE_SIZES, array, count, size_index, last, dict,
          parray, pcount, plast,
          statistics, players, player_games, team_err, played,
          h_key, h_m, h_out,
          teams, schedule, season_last

\* the HashyStepTable with its two histories
hvars == <<TABLE_SIZES, array, count, size_index, last, dict>>
\* the HashyPerfectionTable with the outcome of its last call
pvars == <<parray, pcount, plast>>
\* the Team, its Player objects and the results in the order recorded
tvars == <<statistics, players, player_games, team_err, played>>

\* a key and a capacity, and what hash, hash2 and the probe walk make of them
hashvars == <<h_key, h_m, h_out>>

\* the Season: the teams it was constructed with (by team number), its
\* schedule and the outcome of its last call
svars == <<teams, schedule, season_last>>

vars == <<hvars, pvars, tvars, hashvars, svars>>

(***************************************************************************)
(* Slots: None, the deleted marker, or a (key, data) pair.                 *)
(***************************************************************************)
None == [kind |-> "None", key |-> <<>>, data |-> 0]
deleted == [kind |-> "deleted", key |-> <<>>, data |-> 0]
Item(k, v) == [kind |-> "item", key |-> k, data |-> v]

ArrayR(n) == [i \in 0..(n - 1) |-> None]

table_size(arr) == Cardinality(DOMAIN arr)

(***************************************************************************)
(* The two hash functions.                                                 *)
(***************************************************************************)
RECURSIVE hashLoop(_, _, _, _, _)
hashLoop(key, i, value, a, m) ==
    IF i > Len(key) THEN value
    ELSE hashLoop(key, i + 1, (key[i] + a * value) % m,
                  (a * HASH_BASE) % (m - 1), m)

hash(key, m) == hashLoop(key, 1, 0, HASH_A0, m)

RECURSIVE hash2Loop(_, _, _, _)
hash2Loop(key, i, value, m) ==
    IF i > Len(key) THEN value
    ELSE hash2Loop(key, i + 1, (value * HASH_BASE + key[i]) % (m - 1), m)

\* the step without the + 1
hash2NoPlusOne(key, m) == hash2Loop(key, 1, 0, m)

hash2(key, m) == hash2Loop(key, 1, 0, m) + 1

(***************************************************************************)
(* _hashy_probe: at most table_size slots are inspected.  The result is    *)
(* the position returned or the exception raised, with the number of the   *)
(* loop's rounds that were left over (seen: the slots inspected).          *)
(***************************************************************************)
RECURSIVE probeLoopStopAtDeleted(_, _, _, _, _, _)
\* a lookup takes the deleted marker for the end of the walk
probeLoopStopAtDeleted(arr, key, is_insert, position, step, n) ==
    IF n = 0 THEN [pos |-> -1, err |-> "FullError", left |-> 0]
    ELSE LET item == arr[position] IN
         IF item = None \/ (item = deleted /\ ~is_insert)
         THEN IF is_insert THEN [pos |-> position, err |-> "none", left |-> n - 1]
              ELSE [pos |-> -1, err |-> "KeyError", left |-> n - 1]
         ELSE IF item = deleted /\ is_insert
         THEN [pos |-> position, err |-> "none", left |-> n - 1]
         ELSE IF item # deleted /\ item.key = key
         THEN [pos |-> position, err |-> "none", left |-> n - 1]
         ELSE probeLoopStopAtDeleted(arr, key, is_insert,
                        (position + step) % table_size(arr), step, n - 1)

RECURSIVE probeLoopSkipDeleted(_, _, _, _, _, _)
\* an insert walks past the deleted marker to the first None
probeLoopSkipDeleted(arr, key, is_insert, position, step, n) ==
    IF n = 0 THEN [pos |-> -1, err |-> "FullError", left |-> 0]
    ELSE LET item == arr[position] IN
         IF item = None
         THEN IF is_insert THEN [pos |-> position, err |-> "none", left |-> n - 1]
              ELSE [pos |-> -1, err |-> "KeyError", left |-> n - 1]
         ELSE IF item # deleted /\ item.key = key
         THEN [pos |-> position, err |-> "none", left |-> n - 1]
         ELSE probeLoopSkipDeleted(arr, key, is_insert,
                        (position + step) % table_size(arr), step, n - 1)

RECURSIVE probeLoop(_, _, _, _, _, _)
probeLoop(arr, key, is_insert, position, step, n) ==
    IF n = 0 THEN [pos |-> -1, err |-> "FullError", left |-> 0]
    ELSE LET item == arr[position] IN
         IF item = None
         THEN IF is_insert THEN [pos |-> position, err |-> "none", left |-> n - 1]
              ELSE [pos |-> -1, err |-> "KeyError", left |-> n - 1]
         ELSE IF item = deleted /\ is_insert
         THEN [pos |-> position, err |-> "none", left |-> n - 1]
         ELSE IF item # deleted /\ item.key = key
         THEN [pos |-> position, err |-> "none", left |-> n - 1]
         ELSE probeLoop(arr, key, is_insert,
                        (position + step) % table_size(arr), step, n - 1)

\* the loop runs for twice table_size rounds
hashy_probeTwice(arr, key, is_insert) ==
    LET r == probeLoop(arr, key, is_insert, hash(key, table_size(arr)),
                       hash2(key, table_size(arr)), 2 * table_size(arr))
    IN [pos |-> r.pos, err |-> r.err, seen |-> 2 * table_size(arr) - r.left]

hashy_probe(arr, key, is_insert) ==
    LET r == probeLoop(arr, key, is_insert, hash(key, table_size(arr)),
                       hash2(key, table_size(arr)), table_size(arr))
    IN [pos |-> r.pos, err |-> r.err, seen |-> table_size(arr) - r.left]

(***************************************************************************)
(* keys and values.  The deleted marker is the string "<DELETED>"; a slot  *)
(* that is not None is indexed with [0] or [1], which on the marker gives  *)
(* its first or second character.                                          *)
(***************************************************************************)
DELETED_MARKER == <<60, 68, 69, 76, 69, 84, 69, 68, 62>>

RECURSIVE keysLoop(_, _, _)
keysLoop(arr, x, res) ==
    IF x >= table_size(arr) THEN res
    ELSE IF arr[x] = None THEN keysLoop(arr, x + 1, res)
    ELSE IF arr[x] = deleted
    THEN keysLoop(arr, x + 1, Append(res, <<DELETED_MARKER[1]>>))
    ELSE keysLoop(arr, x + 1, Append(res, arr[x].key))

keys(arr) == keysLoop(arr, 0, <<>>)

RECURSIVE valuesLoop(_, _, _)
valuesLoop(arr, x, res) ==
    IF x >= table_size(arr) THEN res
    ELSE IF arr[x] = None THEN valuesLoop(arr, x + 1, res)
    ELSE IF arr[x] = deleted
    THEN valuesLoop(arr, x + 1, Append(res, <<DELETED_MARKER[2]>>))
    ELSE valuesLoop(arr, x + 1, Append(res, arr[x].data))

values(arr) == valuesLoop(arr, 0, <<>>)

(***************************************************************************)
(* __getitem__ and __contains__.                                           *)
(***************************************************************************)
getitem(arr, key) ==
    LET pr == hashy_probe(arr, key, FALSE) IN
    IF pr.err # "none" THEN [ret |-> 0, err |-> pr.err]
    ELSE [ret |-> arr[pr.pos].data, err |-> "none"]

contains(arr, key) ==
    LET g == getitem(arr, key) IN
    IF g.err = "KeyError" THEN [ret |-> FALSE, err |-> "none"]
    ELSE IF g.err = "none" THEN [ret |-> TRUE, err |-> "none"]
    ELSE [ret |-> FALSE, err |-> g.err]

\* len(t): Python raises ValueError when __len__ returns a negative number
len(t) ==
    IF t.count < 0 THEN [ret |-> 0, err |-> "ValueError"]
    ELSE [ret |-> t.count, err |-> "none"]

is_empty(t) == t.count = 0

is_full(t) == t.count = table_size(t.array)

(***************************************************************************)
(* __setitem__ and _rehash call each other.  A table is the record         *)
(* [array, count, size_index]; sizes is the instance's TABLE_SIZES.  The   *)
(* result carries the table as the call leaves it, also when it raises.    *)
(***************************************************************************)
\* a resize only once every slot is counted
LoadExceededWhenFull(c, m) == c >= m

\* len(self) > self.table_size * 2 / 3
LoadExceeded(c, m) == 3 * c > 2 * m

\* count raised whatever the slot held
NewCountAlways(item, c) == c + 1

\* if self.array[position] is None: self.count += 1
NewCount(item, c) == IF item = None THEN c + 1 ELSE c

RECURSIVE setitem(_, _, _, _)
RECURSIVE rehash(_, _)
RECURSIVE rehashLoop(_, _, _, _)
RECURSIVE rehashLoopKeepDeleted(_, _, _, _)

setitem(sizes, t, key, data) ==
    LET pr == hashy_probe(t.array, key, TRUE) IN
    IF pr.err # "none" THEN [t |-> t, err |-> pr.err]
    ELSE LET c1 == NewCount(t.array[pr.pos], t.count)
             t1 == [t EXCEPT !.array[pr.pos] = Item(key, data), !.count = c1]
         IN \* len() of a negative __len__ raises ValueError
            IF c1 < 0 THEN [t |-> t1, err |-> "ValueError"]
            ELSE IF LoadExceeded(c1, table_size(t1.array))
            THEN rehash(sizes, t1)
            ELSE [t |-> t1, err |-> "none"]

\* the loop runs over the new, empty array instead of old_array
rehashNewArray(sizes, t) ==
    LET idx == t.size_index + 1 IN
    IF idx >= Len(sizes)
    THEN [t |-> [t EXCEPT !.size_index = idx], err |-> "FullError"]
    ELSE rehashLoop(sizes,
                    [array |-> ArrayR(sizes[idx + 1]), count |-> 0,
                     size_index |-> idx],
                    ArrayR(sizes[idx + 1]), 0)

\* the new array is one slot shorter than the old one
rehashShrinking(sizes, t) ==
    LET idx == t.size_index + 1 IN
    IF idx >= Len(sizes)
    THEN [t |-> [t EXCEPT !.size_index = idx], err |-> "FullError"]
    ELSE rehashLoop(sizes,
                    [array |-> ArrayR(table_size(t.array) - 1), count |-> 0,
                     size_index |-> idx],
                    t.array, 0)

rehash(sizes, t) ==
    LET idx == t.size_index + 1 IN
    IF idx >= Len(sizes)
    THEN [t |-> [t EXCEPT !.size_index = idx], err |-> "FullError"]
    ELSE rehashLoop(sizes,
                    [array |-> ArrayR(sizes[idx + 1]), count |-> 0,
                     size_index |-> idx],
                    t.array, 0)

\* the deleted markers of old_array are carried over to the new array
rehashLoopKeepDeleted(sizes, t, old_array, i) ==
    IF i >= table_size(old_array) THEN [t |-> t, err |-> "none"]
    ELSE IF old_array[i] = deleted
    THEN rehashLoopKeepDeleted(sizes,
             [t EXCEPT !.array[i % table_size(t.array)] =
                 IF @ = None THEN deleted ELSE @],
             old_array, i + 1)
    ELSE IF old_array[i] # None
    THEN LET r == setitem(sizes, t, old_array[i].key, old_array[i].data) IN
         IF r.err # "none" THEN r
         ELSE rehashLoopKeepDeleted(sizes, r.t, old_array, i + 1)
    ELSE rehashLoopKeepDeleted(sizes, t, old_array, i + 1)

rehashLoop(sizes, t, old_array, i) ==
    IF i >= table_size(old_array) THEN [t |-> t, err |-> "none"]
    ELSE IF old_array[i] # None /\ old_array[i] # deleted
    THEN LET r == setitem(sizes, t, old_array[i].key, old_array[i].data) IN
         IF r.err # "none" THEN r
         ELSE rehashLoop(sizes, r.t, old_array, i + 1)
    ELSE rehashLoop(sizes, t, old_array, i + 1)

(***************************************************************************)
(* __delitem__.                                                            *)
(***************************************************************************)
\* the slot is emptied instead of marked
delitemToNone(t, key) ==
    LET pr == hashy_probe(t.array, key, FALSE) IN
    IF pr.err # "none" THEN [t |-> t, err |-> pr.err]
    ELSE [t |-> [t EXCEPT !.array[pr.pos] = None, !.count = t.count - 1],
          err |-> "none"]

delitem(t, key) ==
    LET pr == hashy_probe(t.array, key, FALSE) IN
    IF pr.err # "none" THEN [t |-> t, err |-> pr.err]
    ELSE [t |-> [t EXCEPT !.array[pr.pos] = deleted, !.count = t.count - 1],
          err |-> "none"]

(***************************************************************************)
(* HashyPerfectionTable (src/hashy_perfection_table.py): one slot per      *)
(* member of PlayerStats, found by the member's position in the enum.      *)
(* A table is the record [array, count].                                   *)
(***************************************************************************)
\* the enum of constants.py, by the names of its first three members
PlayerStats == <<"GAMES_PLAYED", "GOALS", "ASSISTS">>
\* the keys of the calls: the members and one string that is no member
PerfectKeys == {PlayerStats[i] : i \in DOMAIN PlayerStats} \cup {"SHOTS"}

key_to_index(key) == (CHOOSE i \in DOMAIN PlayerStats : PlayerStats[i] = key) - 1

perfect_hash(key) ==
    IF \E i \in DOMAIN PlayerStats : PlayerStats[i] = key
    THEN [ret |-> key_to_index(key), err |-> "none"]
    ELSE [ret |-> 0, err |-> "KeyError"]

\* for x in range(n): the slots 0..n-1 that are not None go to res[0..]
RECURSIVE perfect_keysLoop(_, _, _, _, _)
perfect_keysLoop(arr, n, x, i, res) ==
    IF x >= n THEN res
    ELSE IF arr[x].kind # "None"
         THEN perfect_keysLoop(arr, n, x + 1, i + 1,
                               [res EXCEPT ![i] = arr[x].key])
         ELSE perfect_keysLoop(arr, n, x + 1, i, res)

\* len(self) raises ValueError when __len__ returns a negative count
perfect_keys(t) ==
    IF t.count < 0 THEN [ret |-> <<>>, err |-> "ValueError"]
    ELSE [ret |-> perfect_keysLoop(t.array, t.count, 0, 0,
                      [j \in 0..(table_size(t.array) - 1) |-> "None"]),
          err |-> "none"]

RECURSIVE perfect_valuesLoop(_, _, _, _, _)
perfect_valuesLoop(arr, n, x, i, res) ==
    IF x >= n THEN res
    ELSE IF arr[x].kind # "None"
         THEN perfect_valuesLoop(arr, n, x + 1, i + 1,
                                 [res EXCEPT ![i] = arr[x].data])
         ELSE perfect_valuesLoop(arr, n, x + 1, i, res)

perfect_values(t) ==
    IF t.count < 0 THEN [ret |-> <<>>, err |-> "ValueError"]
    ELSE [ret |-> perfect_valuesLoop(t.array, t.count, 0, 0,
                      [j \in 0..(table_size(t.array) - 1) |-> 0]),
          err |-> "none"]

perfect_setitem(t, key, data) ==
    LET h == perfect_hash(key) IN
    IF h.err # "none" THEN [t |-> t, err |-> h.err]
    ELSE LET c1 == IF t.array[h.ret].kind = "None"
                   THEN t.count + 1 ELSE t.count
         IN [t |-> [array |-> [t.array EXCEPT ![h.ret] = Item(key, data)],
                    count |-> c1],
             err |-> "none"]

perfect_delitem(t, key) ==
    LET h == perfect_hash(key) IN
    IF h.err # "none" THEN [t |-> t, err |-> h.err]
    ELSE [t |-> [array |-> [t.array EXCEPT ![h.ret] = None],
                 count |-> t.count - 1],
          err |-> "none"]

(***************************************************************************)
(* Team (src/team.py): the statistics that recording a result touches.     *)
(* statistics is the record of WINS, DRAWS, LOSSES, GAMES_PLAYED and       *)
(* LAST_FIVE_RESULTS (a list, oldest first); POINTS and the goal           *)
(* statistics, which no result list reads, are left out.  The roster is    *)
(* the set of Player objects in the team (one position), and each Player   *)
(* object keeps its own GAMES_PLAYED.                                      *)
(***************************************************************************)
Players == {"p1"}
TeamResults == {"WINS", "DRAWS", "LOSSES"}

GameResult(statistic) ==
    CASE statistic = "WINS" -> "WIN"
      [] statistic = "DRAWS" -> "DRAW"
      [] statistic = "LOSSES" -> "LOSS"

TeamInit ==
    [WINS |-> 0, DRAWS |-> 0, LOSSES |-> 0, GAMES_PLAYED |-> 0,
     LAST_FIVE_RESULTS |-> <<>>]

\* the newest result is dropped instead of the oldest
appendResultDropNewest(last_five, result) ==
    LET l == Append(last_five, result) IN
    IF Len(l) > 5 THEN SubSeq(l, 1, Len(l) - 1) ELSE l

\* one round of the loop for delta > 0: append, then delete_at_index(0)
\* when the list has more than five results
appendResult(last_five, result) ==
    LET l == Append(last_five, result) IN
    IF Len(l) > 5 THEN Tail(l) ELSE l

\* one round of the loop for delta < 0: the last occurrence is deleted
removeResult(last_five, result) ==
    LET S == {i \in DOMAIN last_five : last_five[i] = result} IN
    IF S = {} THEN last_five
    ELSE LET i == CHOOSE j \in S : \A k \in S : k <= j IN
         SubSeq(last_five, 1, i - 1) \o SubSeq(last_five, i + 1, Len(last_five))

RECURSIVE update_last_five_results(_, _, _)
update_last_five_results(last_five, result, delta) ==
    IF delta > 0
    THEN update_last_five_results(appendResult(last_five, result),
                                  result, delta - 1)
    ELSE IF delta < 0
    THEN update_last_five_results(removeResult(last_five, result),
                                  result, delta + 1)
    ELSE last_five

\* get_players() is None for an empty roster and iterating it raises
\* TypeError, after the team's statistics have been written
update_players_games_played(roster, games, delta) ==
    IF roster = {} THEN [games |-> games, err |-> "TypeError"]
    ELSE [games |-> [p \in DOMAIN games |->
                        IF p \in roster THEN games[p] + delta ELSE games[p]],
          err |-> "none"]

\* team[statistic] = value for WINS, DRAWS and LOSSES
team_setitem(stats, roster, games, statistic, value) ==
    LET old_value == stats[statistic]
        delta == value - old_value
        s1 == [stats EXCEPT ![statistic] = value]
        s2 == [s1 EXCEPT !.GAMES_PLAYED = @ + delta,
                         !.LAST_FIVE_RESULTS =
                             update_last_five_results(@, GameResult(statistic),
                                                      delta)]
        u == update_players_games_played(roster, games, delta)
    IN [statistics |-> s2, games |-> u.games, err |-> u.err]

get_last_five_results(stats) ==
    LET last_five == stats.LAST_FIVE_RESULTS IN
    IF Len(last_five) = 0 THEN [none |-> TRUE, list |-> <<>>]
    ELSE [none |-> FALSE, list |-> last_five]

(***************************************************************************)
(* Season.  A team is its number (Team.number, distinct for distinct Team   *)
(* objects), a Game a pair of teams, a list or ArrayR the sequence of its   *)
(* elements, the BSet used_teams the set of the numbers added to it, and    *)
(* the LinkedList schedule the sequence of its WeekOfGames.                 *)
(***************************************************************************)
Game(home_team, away_team) ==
    [home_team |-> home_team, away_team |-> away_team]

WeekOfGames(week, games) == [week |-> week, games |-> games]

\* for i in range(num_teams): for j in range(i + 1, num_teams):
\*     games.append(Game(self.teams[i], self.teams[j]))
RECURSIVE matchupsLoop(_, _, _)
matchupsLoop(tms, i, j) ==
    IF i >= Len(tms) THEN <<>>
    ELSE IF j >= Len(tms) THEN matchupsLoop(tms, i + 1, i + 2)
    ELSE <<Game(tms[i + 1], tms[j + 1])>> \o matchupsLoop(tms, i, j + 1)

\* games.remove(game): the list without its first element equal to game
RECURSIVE listRemove(_, _)
listRemove(lst, x) ==
    IF lst = <<>> THEN <<>>
    ELSE IF Head(lst) = x THEN Tail(lst)
    ELSE <<Head(lst)>> \o listRemove(Tail(lst), x)

\* the week keeps a team whose away games it has already taken free for
\* another game
RECURSIVE weekLoopHomeOnly(_, _, _)
weekLoopHomeOnly(copy, k, w) ==
    IF k > Len(copy) THEN w
    ELSE LET game == copy[k] IN
         IF /\ game.home_team \notin w.used_teams
            /\ game.away_team \notin w.used_teams
         THEN weekLoopHomeOnly(copy, k + 1,
                  [current_week |-> Append(w.current_week, game),
                   flipped_week |-> Append(w.flipped_week,
                                       Game(game.away_team, game.home_team)),
                   used_teams |-> w.used_teams \cup {game.home_team},
                   games |-> listRemove(w.games, game)])
         ELSE weekLoopHomeOnly(copy, k + 1, w)

\* for game in games[:]: one week, from the k-th game of the copy on
RECURSIVE weekLoop(_, _, _)
weekLoop(copy, k, w) ==
    IF k > Len(copy) THEN w
    ELSE LET game == copy[k] IN
         IF /\ game.home_team \notin w.used_teams
            /\ game.away_team \notin w.used_teams
         THEN weekLoop(copy, k + 1,
                  [current_week |-> Append(w.current_week, game),
                   flipped_week |-> Append(w.flipped_week,
                                       Game(game.away_team, game.home_team)),
                   used_teams |-> w.used_teams
                                      \cup {game.home_team, game.away_team},
                   games |-> listRemove(w.games, game)])
         ELSE weekLoop(copy, k + 1, w)

\* while games: the weeks and their flipped weeks
RECURSIVE scheduleLoop(_, _, _)
scheduleLoop(games, weekly_games, flipped_weeks) ==
    IF games = <<>> THEN weekly_games \o flipped_weeks
    ELSE LET w == weekLoop(games, 1,
                      [current_week |-> <<>>, flipped_week |-> <<>>,
                       used_teams |-> {}, games |-> games])
         IN scheduleLoop(w.games, Append(weekly_games, w.current_week),
                         Append(flipped_weeks, w.flipped_week))

generate_schedule(tms) == scheduleLoop(matchupsLoop(tms, 0, 1), <<>>, <<>>)

\* the schedule of Season(teams): week i + 1 holds raw_schedule[i]
season_schedule(tms) ==
    LET raw_schedule == generate_schedule(tms) IN
    [i \in 1..Len(raw_schedule) |-> WeekOfGames(i, raw_schedule[i])]

\* new_week: None, or a week number
NoWeek == [none |-> TRUE, week |-> 0]

Week(n) == [none |-> FALSE, week |-> n]

\* LinkedList.delete_at_index and LinkedList.insert on the sequence
delete_at_index(lst, index) ==
    SubSeq(lst, 1, index) \o SubSeq(lst, index + 2, Len(lst))

insert(lst, index, item) ==
    SubSeq(lst, 1, index) \o <<item>> \o SubSeq(lst, index + 1, Len(lst))

\* the week is inserted at its new position before it is deleted at the
\* old one
delay_week_of_gamesInsertFirst(sched, orig_week, new_week) ==
    IF orig_week < 1 \/ orig_week > Len(sched)
    THEN [schedule |-> sched, err |-> "ValueError"]
    ELSE IF ~new_week.none
            /\ (new_week.week < 1 \/ new_week.week > Len(sched))
    THEN [schedule |-> sched, err |-> "ValueError"]
    ELSE LET orig_week_index == orig_week - 1
             week_to_move == sched[orig_week_index + 1]
         IN IF new_week.none
            THEN [schedule |-> delete_at_index(Append(sched, week_to_move),
                                               orig_week_index),
                  err |-> "none"]
            ELSE [schedule |->
                      delete_at_index(insert(sched, new_week.week - 1,
                                             week_to_move),
                                      orig_week_index),
                  err |-> "none"]

delay_week_of_games(sched, orig_week, new_week) ==
    IF orig_week < 1 \/ orig_week > Len(sched)
    THEN [schedule |-> sched, err |-> "ValueError"]
    ELSE IF ~new_week.none
            /\ (new_week.week < 1 \/ new_week.week > Len(sched))
    THEN [schedule |-> sched, err |-> "ValueError"]
    ELSE LET orig_week_index == orig_week - 1
             week_to_move == sched[orig_week_index + 1]
             rest == delete_at_index(sched, orig_week_index)
         IN IF new_week.none
            THEN [schedule |-> Append(rest, week_to_move), err |-> "none"]
            ELSE [schedule |-> insert(rest, new_week.week - 1, week_to_move),
                  err |-> "none"]

(***************************************************************************)
(* The state machine.  Two history variables serve the properties: last    *)
(* is the most recent call and its outcome, dict is the mapping a caller   *)
(* expects (a function from the keys set and not deleted since to the     *)
(* data of their most recent set that returned).  Spec records last,       *)
(* SpecD records dict; the table itself moves the same way in both.        *)
(***************************************************************************)
Tbl == [array |-> array, count |-> count, size_index |-> size_index]

EmptyDict == [k \in {} |-> 0]

DictSet(d, key, data) ==
    [k \in (DOMAIN d) \cup {key} |-> IF k = key THEN data ELSE d[k]]

DictDel(d, key) == [k \in (DOMAIN d) \ {key} |-> d[k]]

\* the kind of slot a set of key writes to ("-" when the probe raises)
SlotKind(arr, key) ==
    LET pr == hashy_probe(arr, key, TRUE) IN
    IF pr.err # "none" THEN "-" ELSE arr[pr.pos].kind

\* the state after HashyStepTable(sizes), HashyPerfectionTable() and
\* Team(name, players)
Constructed ==
    /\ size_index = 0
    /\ array = ArrayR(TABLE_SIZES[1])
    /\ count = 0
    /\ last = [op |-> "init", key |-> <<>>, data |-> 0, err |-> "none",
               slot |-> "-", again |-> FALSE, grew |-> FALSE]
    /\ dict = EmptyDict
    /\ parray = ArrayR(13)
    /\ pcount = 0
    /\ plast = [op |-> "init", key |-> "", err |-> "none"]
    /\ statistics = TeamInit
    /\ players = Players
    /\ player_games = [p \in Players |-> 0]
    /\ team_err = "none"
    /\ played = <<>>

\* no hash computed yet
NoHash == [done |-> FALSE, start |-> 0, step |-> 0, walk |-> <<>>]

HashIdle == h_key = <<>> /\ h_m = 2 /\ h_out = NoHash

\* no Season constructed
NoCall == [op |-> "none", orig_week |-> 0, new_week |-> NoWeek, err |-> "none"]

SeasonIdle == teams = <<>> /\ schedule = <<>> /\ season_last = NoCall

Init == TABLE_SIZES \in SizeSeqs /\ Constructed /\ HashIdle /\ SeasonIdle

InitG == TABLE_SIZES \in GrowSeqs /\ Constructed /\ HashIdle /\ SeasonIdle

\* a key and a capacity to hash
InitH ==
    /\ TABLE_SIZES \in GrowSeqs /\ Constructed
    /\ h_key \in HashKeys
    /\ h_m \in 2..MaxCapacity
    /\ h_out = NoHash
    /\ SeasonIdle

\* t[key] = data on the table
SetCall(key, data) ==
    /\ size_index < MaxSizeIndex
    /\ LET r == setitem(TABLE_SIZES, Tbl, key, data) IN
       /\ array' = r.t.array
       /\ count' = r.t.count
       /\ size_index' = r.t.size_index
    /\ UNCHANGED <<TABLE_SIZES, pvars, tvars, hashvars, svars>>

\* del t[key] on the table
DeleteCall(key) ==
    /\ count > -MaxDeficit
    /\ LET r == delitem(Tbl, key) IN
       /\ array' = r.t.array
       /\ count' = r.t.count
       /\ size_index' = r.t.size_index
    /\ UNCHANGED <<TABLE_SIZES, pvars, tvars, hashvars, svars>>

Set(key, data) ==
    /\ SetCall(key, data)
    /\ last' = [op |-> "set", key |-> key, data |-> data,
                err |-> setitem(TABLE_SIZES, Tbl, key, data).err,
                slot |-> SlotKind(array, key),
                again |-> (last.op = "set" /\ last.key = key
                           /\ last.err = "none"),
                grew |-> (size_index' # size_index)]
    /\ UNCHANGED dict

Delete(key) ==
    /\ DeleteCall(key)
    /\ last' = [op |-> "delete", key |-> key, data |-> 0,
                err |-> delitem(Tbl, key).err,
                slot |-> "-", again |-> FALSE, grew |-> FALSE]
    /\ UNCHANGED dict

Next ==
    \/ \E key \in Keys, data \in Vals : Set(key, data)
    \/ \E key \in Keys : Delete(key)

Spec == Init /\ [][Next]_vars

\* the same calls on a table constructed with a sequence of GrowSeqs
SpecG == InitG /\ [][Next]_vars

SetD(key, data) ==
    /\ SetCall(key, data)
    /\ dict' = IF setitem(TABLE_SIZES, Tbl, key, data).err = "none"
               THEN DictSet(dict, key, data) ELSE dict
    /\ UNCHANGED last

DeleteD(key) ==
    /\ DeleteCall(key)
    /\ dict' = IF delitem(Tbl, key).err = "none"
               THEN DictDel(dict, key) ELSE dict
    /\ UNCHANGED last

NextD ==
    \/ \E key \in Keys, data \in Vals : SetD(key, data)
    \/ \E key \in Keys : DeleteD(key)

SpecD == Init /\ [][NextD]_vars

\* a call and its outcome, for the calls whose key or slot the properties
\* of SpecR do not need
Outcome(op, key, data, err) ==
    [op |-> op, key |-> key, data |-> data, err |-> err,
     slot |-> "-", again |-> FALSE, grew |-> FALSE]

SetR(key, data) ==
    /\ SetCall(key, data)
    /\ last' = Outcome("set", <<>>, 0, setitem(TABLE_SIZES, Tbl, key, data).err)
    /\ UNCHANGED dict

DeleteR(key) ==
    /\ DeleteCall(key)
    /\ last' = Outcome("delete", <<>>, 0, delitem(Tbl, key).err)
    /\ UNCHANGED dict

\* what the methods that only read leave as it was
ReadFrame ==
    UNCHANGED <<TABLE_SIZES, array, count, size_index, dict, pvars, tvars,
                hashvars, svars>>

\* the walk of the lookup turns the deleted markers into None
GetCompacting(key) ==
    /\ last' = Outcome("get", key, getitem(array, key).ret,
                       getitem(array, key).err)
    /\ array' = [i \in DOMAIN array |->
                    IF array[i] = deleted THEN None ELSE array[i]]
    /\ UNCHANGED <<TABLE_SIZES, count, size_index, dict, pvars, tvars,
                   hashvars, svars>>

\* t[key]
Get(key) ==
    /\ last' = Outcome("get", key, getitem(array, key).ret,
                       getitem(array, key).err)
    /\ ReadFrame

\* key in t
Contains(key) ==
    /\ last' = Outcome("contains", key,
                       IF contains(array, key).ret THEN 1 ELSE 0,
                       contains(array, key).err)
    /\ ReadFrame

\* t.keys() and t.values(), by the length of the list returned
KeysCall ==
    /\ last' = Outcome("keys", <<>>, Len(keys(array)), "none")
    /\ ReadFrame

ValuesCall ==
    /\ last' = Outcome("values", <<>>, Len(values(array)), "none")
    /\ ReadFrame

\* len(t), t.is_empty() and t.is_full()
LenCall ==
    /\ last' = Outcome("len", <<>>, len(Tbl).ret, len(Tbl).err)
    /\ ReadFrame

IsEmptyCall ==
    /\ last' = Outcome("is_empty", <<>>, IF is_empty(Tbl) THEN 1 ELSE 0, "none")
    /\ ReadFrame

IsFullCall ==
    /\ last' = Outcome("is_full", <<>>, IF is_full(Tbl) THEN 1 ELSE 0, "none")
    /\ ReadFrame

NextR ==
    \/ \E key \in Keys, data \in Vals : SetR(key, data)
    \/ \E key \in Keys : DeleteR(key)
    \/ \E key \in Keys : Get(key)
    \/ \E key \in Keys : Contains(key)
    \/ KeysCall
    \/ ValuesCall
    \/ LenCall
    \/ IsEmptyCall
    \/ IsFullCall

\* the table under the calls that write and the calls that only read
SpecR == InitG /\ [][NextR]_vars

\* the keys of the calls that may pass the key of no characters
EdgeKeys == { <<>>, <<97>>, <<102>> }

NextE ==
    \/ \E key \in EdgeKeys, data \in Vals : Set(key, data)
    \/ \E key \in EdgeKeys : Delete(key)
    \/ \E key \in EdgeKeys : Get(key)

\* set, delete and get with keys that include the key of no characters
SpecE == InitG /\ [][NextE]_vars

\* the positions position = (position + step) % table_size takes in
\* table_size rounds of the probe loop, from position = hash(key)
RECURSIVE walkLoop(_, _, _, _)
walkLoop(position, step, m, n) ==
    IF n = 0 THEN <<>>
    ELSE <<position>> \o walkLoop((position + step) % m, step, m, n - 1)

\* hash(key), hash2(key) and the walk of a table of h_m slots
HashCall ==
    /\ ~h_out.done
    /\ h_out' = [done |-> TRUE,
                 start |-> hash(h_key, h_m),
                 step |-> hash2(h_key, h_m),
                 walk |-> walkLoop(hash(h_key, h_m), hash2(h_key, h_m),
                                   h_m, h_m)]
    /\ UNCHANGED <<h_key, h_m, hvars, pvars, tvars, svars>>

NextH == HashCall

SpecH == InitH /\ [][NextH]_vars

\* the HashyPerfectionTable as a record
PTbl == [array |-> parray, count |-> pcount]

\* p[key] = data on the perfection table
PerfectSet(key, data) ==
    /\ LET r == perfect_setitem(PTbl, key, data) IN
       /\ parray' = r.t.array
       /\ pcount' = r.t.count
       /\ plast' = [op |-> "set", key |-> key, err |-> r.err]
    /\ UNCHANGED <<hvars, tvars, hashvars, svars>>

\* del p[key] on the perfection table
PerfectDelete(key) ==
    /\ pcount > -MaxDeficit
    /\ LET r == perfect_delitem(PTbl, key) IN
       /\ parray' = r.t.array
       /\ pcount' = r.t.count
       /\ plast' = [op |-> "delete", key |-> key, err |-> r.err]
    /\ UNCHANGED <<hvars, tvars, hashvars, svars>>

NextP ==
    \/ \E key \in PerfectKeys, data \in Vals : PerfectSet(key, data)
    \/ \E key \in PerfectKeys : PerfectDelete(key)

SpecP == Init /\ [][NextP]_vars

\* team[statistic] = team[statistic] + 1: one more win, draw or loss
RecordResult(statistic) ==
    /\ Len(played) < MaxGames
    /\ LET r == team_setitem(statistics, players, player_games, statistic,
                             statistics[statistic] + 1) IN
       /\ statistics' = r.statistics
       /\ player_games' = r.games
       /\ team_err' = r.err
    /\ played' = Append(played, GameResult(statistic))
    /\ UNCHANGED <<players, hvars, pvars, hashvars, svars>>

\* team.add_player(p) for a Player that is not in the team
AddPlayer(p) ==
    /\ p \notin players
    /\ players' = players \cup {p}
    /\ UNCHANGED <<statistics, player_games, team_err, played, hvars, pvars,
                   hashvars, svars>>

\* team.remove_player(p)
RemovePlayer(p) ==
    /\ players' = players \ {p}
    /\ UNCHANGED <<statistics, player_games, team_err, played, hvars, pvars,
                   hashvars, svars>>

NextT ==
    \/ \E statistic \in TeamResults : RecordResult(statistic)
    \/ \E p \in Players : AddPlayer(p)
    \/ \E p \in Players : RemovePlayer(p)

SpecT == Init /\ [][NextT]_vars

\* the numbers of the teams, and the arrays of distinct teams a Season is
\* constructed with
TeamNumbers == 0..(MaxTeams - 1)

TeamArrays ==
    UNION {{t \in [1..n -> TeamNumbers] :
                \A i, j \in 1..n : i # j => t[i] # t[j]} : n \in 0..MaxTeams}

\* teams to construct a Season with
InitS ==
    /\ TABLE_SIZES \in GrowSeqs /\ Constructed /\ HashIdle
    /\ teams \in TeamArrays
    /\ schedule = <<>>
    /\ season_last = NoCall

\* Season(teams)
SeasonInit ==
    /\ season_last.op = "none"
    /\ schedule' = season_schedule(teams)
    /\ season_last' = [NoCall EXCEPT !.op = "init"]
    /\ UNCHANGED <<teams, hvars, pvars, tvars, hashvars>>

NextS == SeasonInit

SpecS == InitS /\ [][NextS]_vars

\* the teams of the seasons whose weeks are delayed
DelayTeams == { <<>>, <<0, 1>>, <<0, 1, 2>> }

\* the state after Season(teams)
InitW ==
    /\ TABLE_SIZES \in GrowSeqs /\ Constructed /\ HashIdle
    /\ teams \in DelayTeams
    /\ schedule = season_schedule(teams)
    /\ season_last = [NoCall EXCEPT !.op = "init"]

\* season.delay_week_of_games(orig_week, new_week)
DelayWeek(orig_week, new_week) ==
    /\ LET r == delay_week_of_games(schedule, orig_week, new_week) IN
       /\ schedule' = r.schedule
       /\ season_last' = [op |-> "delay", orig_week |-> orig_week,
                          new_week |-> new_week, err |-> r.err]
    /\ UNCHANGED <<teams, hvars, pvars, tvars, hashvars>>

\* the week arguments tried: 0 up to one more than the number of weeks
WeekArgs == 0..(Len(schedule) + 1)

NextW ==
    \E orig_week \in WeekArgs :
        \E new_week \in {NoWeek} \cup {Week(n) : n \in WeekArgs} :
            DelayWeek(orig_week, new_week)

SpecW == InitW /\ [][NextW]_vars

(***************************************************************************)
(* Properties.                                                             *)
(***************************************************************************)
Occupied(arr) == {i \in DOMAIN arr : arr[i].kind = "item"}

\* key is held by some slot of arr
Stored(arr, key) == \E i \in Occupied(arr) : arr[i].key = key

Returned(v) == [ret |-> v, err |-> "none"]

\* C1: in every reachable state count equals the number of Occupied slots.
CountIsOccupied == count = Cardinality(Occupied(array))

\* C2: when set(k, v) has returned without error, get(k) returns v.
RoundTrip ==
    (last.op = "set" /\ last.err = "none")
        => getitem(array, last.key) = Returned(last.data)

\* a set that wrote into a Tombstone has returned
RoundTripWitness ==
    /\ last.op = "set" /\ last.err = "none" /\ last.slot = "deleted"
    /\ getitem(array, last.key) = Returned(last.data)

\* C3: when delete(k) has returned without error, contains(k) is false and
\* get(k) fails with KeyError.
DeleteRemoves ==
    (last.op = "delete" /\ last.err = "none")
        => /\ contains(array, last.key) = Returned(FALSE)
           /\ getitem(array, last.key).err = "KeyError"

\* C4: a set of a key that no slot holds, when it returns, has raised
\* len() by exactly 1, whether it wrote to an Empty or a Tombstone slot.
SetNewKeyAddsOne ==
    [][(last'.op = "set" /\ last'.err = "none" /\ ~Stored(array, last'.key))
          => count' = count + 1]_vars

\* C5: set(k, v1) that returned, followed directly by set(k, v2): the
\* second set returns, leaves len() as it was, and get(k) returns v2.
IdempotentUpdate ==
    [][(last'.op = "set" /\ last'.again)
          => /\ last'.err = "none"
             /\ count' = count
             /\ getitem(array', last'.key) = Returned(last'.data)]_vars

\* the second of two sets of one key has returned, with other data
IdempotentUpdateWitness ==
    /\ last.op = "set" /\ last.again /\ last.err = "none"
    /\ last.slot = "item"
    /\ getitem(array, last.key) = Returned(last.data)
    /\ count >= 2

\* C6: after a set that resized the table, every key set and not deleted
\* since is retrievable with the data of its most recent set.
ResizePreservesContents ==
    [][(size_index' # size_index /\ table_size(array') # table_size(array))
          => \A k \in DOMAIN dict' :
                 getitem(array', k) = Returned(dict'[k])]_vars

\* C7: when a set has returned without error, len() <= capacity * 2/3.
LoadFactor ==
    (last.op = "set" /\ last.err = "none")
        => 3 * count <= 2 * table_size(array)

\* a set that resized the table has returned
LoadFactorWitness ==
    /\ last.op = "set" /\ last.err = "none" /\ last.grew
    /\ table_size(array) = TABLE_SIZES[size_index + 1]
    /\ count = 4

\* C8: a set that raises leaves the slots, count and size_index as they
\* were before the call.
NoPartialMutation ==
    [][(last'.op = "set" /\ last'.err # "none")
          => UNCHANGED <<array, count, size_index>>]_vars

\* C9: get(k) and delete(k) of a key that no slot holds fail with KeyError,
\* and the failed delete leaves the table unchanged.
NotFoundOnAbsent ==
    \A k \in Keys :
        ~Stored(array, k)
            => /\ getitem(array, k).err = "KeyError"
               /\ delitem(Tbl, k) = [t |-> Tbl, err |-> "KeyError"]

\* C10: contains(k) never raises, and is true exactly for the keys set and
\* not deleted since.
ContainsMatchesHistory ==
    \A k \in Keys : contains(array, k) = Returned(k \in DOMAIN dict)

\* the i-th position (i = 0, 1, ...) of the probe walk of key
WalkPos(arr, key, i) ==
    (hash(key, table_size(arr)) + i * hash2(key, table_size(arr)))
        % table_size(arr)

Deleted(arr) == {i \in DOMAIN arr : arr[i] = deleted}

\* C11: a delete(k1) that returns leaves get(k2) as it was for every other
\* key k2 held by the table.
TombstoneTransparent ==
    [][(last'.op = "delete" /\ last'.err = "none")
          => \A k2 \in Keys \ {last'.key} :
                 Stored(array, k2)
                     => /\ getitem(array, k2).err = "none"
                        /\ getitem(array', k2) = getitem(array, k2)]_vars

\* a delete has returned and left the table's only Tombstone, which lies
\* on the walk of another key before the slot that holds that key
TombstoneTransparentWitness ==
    /\ last.op = "delete" /\ last.err = "none"
    /\ Cardinality(Deleted(array)) = 1
    /\ \E k2 \in Keys \ {last.key} :
           /\ array[WalkPos(array, k2, 0)] = deleted
           /\ getitem(array, k2).err = "none"

\* C14: a set of a key held by no slot whose walk meets a Tombstone before
\* any Empty slot writes the entry into that Tombstone slot, and the
\* capacity changes only if count after the write exceeds capacity * 2/3.
TombstoneReuse ==
    [][\A i \in DOMAIN array :
          (/\ last'.op = "set"
           /\ ~Stored(array, last'.key)
           /\ array[WalkPos(array, last'.key, i)] = deleted
           /\ \A j \in 0..(i - 1) :
                  array[WalkPos(array, last'.key, j)].kind = "item")
          => /\ table_size(array') # table_size(array)
                  => 3 * count > 2 * table_size(array)
             /\ table_size(array') = table_size(array)
                  => array' = [array EXCEPT ![WalkPos(array, last'.key, i)] =
                                   Item(last'.key, last'.data)]]_vars

\* a set has written a key into a Tombstone that came second on its walk
TombstoneReuseWitness ==
    /\ last.op = "set" /\ last.err = "none" /\ last.slot = "deleted"
    /\ array[WalkPos(array, last.key, 0)].kind = "item"
    /\ array[WalkPos(array, last.key, 0)].key # last.key
    /\ array[WalkPos(array, last.key, 1)] = Item(last.key, last.data)

\* C15: a delete(k) that returns lowers len() by exactly 1, turns the one
\* slot that held k into a Tombstone and leaves the other slots and the
\* capacity as they were.
DeleteFrame ==
    [][(last'.op = "delete" /\ last'.err = "none")
          => /\ count' = count - 1
             /\ size_index' = size_index
             /\ \E p \in DOMAIN array :
                    /\ array[p].kind = "item"
                    /\ array[p].key = last'.key
                    /\ array' = [array EXCEPT ![p] = deleted]]_vars

\* a delete has returned from a table holding other keys
DeleteFrameWitness ==
    /\ last.op = "delete" /\ last.err = "none"
    /\ ~Stored(array, last.key)
    /\ Cardinality(Deleted(array)) >= 1
    /\ Cardinality(Occupied(array)) >= 2

\* the keys held by the slots of arr
KeysOf(arr) == {arr[i].key : i \in Occupied(arr)}

\* C12: with a size sequence of length 1, every set of a key held by no
\* slot that brings the number of stored keys above capacity * 2/3 raises
\* FullError, and every key set and not deleted since is still retrievable
\* with its data afterwards.
CapacityCeiling ==
    [][\A k \in Keys, v \in Vals :
          (/\ Len(TABLE_SIZES) = 1
           /\ SetD(k, v)
           /\ ~Stored(array, k)
           /\ 3 * (Cardinality(KeysOf(array)) + 1) > 2 * table_size(array))
          => /\ setitem(TABLE_SIZES, Tbl, k, v).err = "FullError"
             /\ \A j \in DOMAIN dict' :
                    getitem(array', j) = Returned(dict'[j])]_vars

\* the Occupied positions below x, ascending, and their keys and data
RECURSIVE OccupiedSeq(_, _)
OccupiedSeq(arr, x) ==
    IF x = 0 THEN <<>>
    ELSE IF arr[x - 1].kind = "item"
    THEN Append(OccupiedSeq(arr, x - 1), x - 1)
    ELSE OccupiedSeq(arr, x - 1)

OccupiedKeys(arr) ==
    LET ps == OccupiedSeq(arr, table_size(arr)) IN
    [n \in 1..Len(ps) |-> arr[ps[n]].key]

OccupiedData(arr) ==
    LET ps == OccupiedSeq(arr, table_size(arr)) IN
    [n \in 1..Len(ps) |-> arr[ps[n]].data]

\* C13: keys() and values() are the keys and the data of the Occupied
\* slots in ascending position, with no element for an Empty or a
\* Tombstone slot.
KeysValuesOccupied ==
    /\ Len(keys(array)) = Cardinality(Occupied(array))
    /\ Len(values(array)) = Cardinality(Occupied(array))
    /\ keys(array) = OccupiedKeys(array)
    /\ values(array) = OccupiedData(array)

\* the step is a set whose probe returned and whose count after the write
\* exceeds capacity * 2/3 while a further size is configured
GrowthDue ==
    /\ last'.op = "set" /\ last'.slot # "-"
    /\ 3 * (IF last'.slot = "None" THEN count + 1 ELSE count)
           > 2 * table_size(array)
    /\ size_index + 1 < Len(TABLE_SIZES)

\* with sizes [5, 13] and no delete so far (no Tombstone, and none written
\* over: count is the number of Occupied slots), the first three inserts of
\* new keys keep capacity 5 and the fourth moves it to 13 with len() = 4
FourthInsertGrows ==
    (/\ TABLE_SIZES = <<5, 13>> /\ size_index = 0 /\ Deleted(array) = {}
     /\ count = Cardinality(Occupied(array))
     /\ last'.op = "set" /\ ~Stored(array, last'.key))
    => IF Cardinality(Occupied(array)) < 3
       THEN table_size(array') = 5
       ELSE table_size(array') = 13 /\ count' = 4

\* C19 as claimed: a set changes the capacity exactly when count after its
\* write exceeds capacity * 2/3 and a larger size remains, and the capacity
\* then is the next size of the sequence.
ResizeTrigger ==
    [][last'.op = "set"
          => /\ (table_size(array') # table_size(array)) <=> GrowthDue
             /\ GrowthDue
                  => table_size(array') = TABLE_SIZES[size_index + 2]
             /\ FourthInsertGrows]_vars

\* C19 as amended: the capacity changes exactly in that case; when the set
\* returns, the capacity then is the first later size of the sequence of
\* which count does not exceed 2/3 (sizes that the re-inserted entries
\* overfill are passed over).
ResizeTriggerAmended ==
    [][last'.op = "set"
          => /\ (table_size(array') # table_size(array)) <=> GrowthDue
             /\ (GrowthDue /\ last'.err = "none")
                  => /\ size_index' > size_index
                     /\ size_index' < Len(TABLE_SIZES)
                     /\ table_size(array') = TABLE_SIZES[size_index' + 1]
                     /\ 3 * count' <= 2 * table_size(array')
                     /\ \A j \in (size_index + 2)..size_index' :
                            3 * count' > 2 * TABLE_SIZES[j]
             /\ FourthInsertGrows]_vars

\* a set has returned after growing the table past the next size
ResizeTriggerWitness ==
    /\ last.op = "set" /\ last.err = "none" /\ last.grew
    /\ TABLE_SIZES = <<3, 4, 13>> /\ size_index = 2
    /\ table_size(array) = 13 /\ count = 3

\* C20: while a larger size remains in the (ascending) size sequence, no
\* set fails with FullError out of its probe walk.
FullUnreachable ==
    ~(/\ last.op = "set" /\ last.err = "FullError" /\ last.slot = "-"
      /\ size_index + 1 < Len(TABLE_SIZES))

\* a key of a delete that the perfection table holds no entry for
PerfectAbsent(arr, key) ==
    \/ perfect_hash(key).err # "none"
    \/ arr[perfect_hash(key).ret].kind = "None"

\* C16: a delete on the perfection table of a key with no entry (a key
\* outside the key set, or a member with an empty slot) raises KeyError and
\* leaves the slots and count as they were.
PerfectDeleteAbsentRaises ==
    [][(plast'.op = "delete" /\ PerfectAbsent(parray, plast'.key))
       => (plast'.err = "KeyError" /\ UNCHANGED <<parray, pcount>>)]_vars

\* C17: every member of the key set with a stored entry is among the keys
\* that keys() returns, and its data among the values that values() returns.
PerfectKeysComplete ==
    \A i \in DOMAIN PlayerStats :
        parray[i - 1].kind # "None"
        => /\ perfect_keys(PTbl).err = "none"
           /\ \E j \in DOMAIN perfect_keys(PTbl).ret :
                  perfect_keys(PTbl).ret[j] = PlayerStats[i]
           /\ perfect_values(PTbl).err = "none"
           /\ \E j \in DOMAIN perfect_values(PTbl).ret :
                  perfect_values(PTbl).ret[j] = parray[i - 1].data

\* the most recent min(5, n) of the results recorded, oldest first
MostRecent(results) ==
    LET n == Len(results) IN
    SubSeq(results, IF n > 5 THEN n - 4 ELSE 1, n)

\* C18: get_last_five_results is None while no result has been recorded,
\* and afterwards the most recent min(5, games played) results in the order
\* they were recorded.
LastFiveIsMostRecent ==
    /\ statistics.GAMES_PLAYED = Len(played)
    /\ get_last_five_results(statistics) =
         IF Len(played) = 0 THEN [none |-> TRUE, list |-> <<>>]
         ELSE [none |-> FALSE, list |-> MostRecent(played)]

\* six results recorded, the oldest of them unlike the rest, and the list
\* returned is the five after it
LastFiveWitness ==
    /\ Len(played) > 5
    /\ played[1] = "WIN" /\ played[2] = "LOSS"
    /\ get_last_five_results(statistics).list = MostRecent(played)
    /\ Len(get_last_five_results(statistics).list) = 5

\* C21: no two Occupied slots hold the same key.
NoDuplicateKeys ==
    \A i, j \in Occupied(array) : i # j => array[i].key # array[j].key

\* C22: size_index is a valid index of the size sequence and the storage
\* length is the size at that index, also after a set that raised.
CapacityMatchesSizes ==
    /\ size_index < Len(TABLE_SIZES)
    /\ table_size(array) = TABLE_SIZES[size_index + 1]

\* C23: after a set that resized and returned, the new storage holds no
\* Tombstone, count is the number of its Occupied slots, and its keys are
\* the keys of the Occupied slots of the old storage (the key just written
\* among them).
ResizeRebuilds ==
    [][(last'.op = "set" /\ last'.err = "none" /\ last'.grew)
          => /\ Deleted(array') = {}
             /\ count' = Cardinality(Occupied(array'))
             /\ KeysOf(array') = KeysOf(array) \cup {last'.key}]_vars

\* a set is about to resize a table that holds a Tombstone, and returns
\* with the keys of the Occupied slots and no Tombstone
ResizeRebuildsWitness ==
    /\ Deleted(array) # {}
    /\ Cardinality(Occupied(array)) >= 2
    /\ size_index < MaxSizeIndex
    /\ \E k \in Keys, v \in Vals :
           LET r == setitem(TABLE_SIZES, Tbl, k, v) IN
           /\ r.err = "none"
           /\ table_size(r.t.array) > table_size(array)
           /\ Deleted(r.t.array) = {}
           /\ KeysOf(r.t.array) = KeysOf(array) \cup {k}

\* the number of slots that are not Empty
NonEmpty(arr) == Cardinality({i \in DOMAIN arr : arr[i] # None})

\* C24: a set or delete that leaves the capacity as it was turns no
\* Tombstone into an Empty slot and does not lower the number of non-Empty
\* slots.
TombstonesStay ==
    [][table_size(array') = table_size(array)
          => /\ \A i \in DOMAIN array :
                    array[i] = deleted => array'[i] # None
             /\ NonEmpty(array') >= NonEmpty(array)]_vars

\* a delete has added a Tombstone to a table that already held one, and a
\* set of another key has written into one of the two
TombstonesStayWitness ==
    /\ last.op = "set" /\ last.err = "none" /\ last.slot = "deleted"
    /\ ~last.grew
    /\ Deleted(array) # {}

\* the sizes of the size sequences tables are constructed with
ConfiguredSizes ==
    UNION {{s[i] : i \in DOMAIN s} : s \in SizeSeqs \cup GrowSeqs}

\* C25: for every configured capacity m and every key, the m positions of
\* one probe walk are pairwise distinct.
ProbeCoverage ==
    (h_out.done /\ h_m \in ConfiguredSizes)
        => \A i, j \in DOMAIN h_out.walk :
               i # j => h_out.walk[i] # h_out.walk[j]

\* C26: for every key and every capacity m >= 2, hash returns a position in
\* 0..m-1 and hash2 a step in 1..m-1.
HashRanges ==
    h_out.done
        => /\ h_out.start \in 0..(h_m - 1)
           /\ h_out.step \in 1..(h_m - 1)

\* a key whose characters sum to 0 modulo m - 1 got the step 1, and a key
\* of two characters got a position and a step
HashRangesWitness ==
    /\ h_out.done /\ h_m > 2
    /\ \/ h_out.step = 1 /\ Len(h_key) = 1
       \/ h_out.step = h_m - 1 /\ Len(h_key) = 2

Ascending(sizes) ==
    \A i \in 1..(Len(sizes) - 1) : sizes[i] < sizes[i + 1]

\* C27: on a table with an ascending size sequence no call lowers the
\* capacity, and only a set changes it.
CapacityNeverDecreases ==
    [][Ascending(TABLE_SIZES)
          => /\ table_size(array') >= table_size(array)
             /\ table_size(array') # table_size(array) => last'.op = "set"]_vars

\* a table that grew has been emptied by deletes and kept its capacity
CapacityNeverDecreasesWitness ==
    /\ last.op = "delete" /\ last.err = "none"
    /\ size_index > 0 /\ size_index < Len(TABLE_SIZES)
    /\ table_size(array) = TABLE_SIZES[size_index + 1]
    /\ table_size(array) > TABLE_SIZES[1]
    /\ Occupied(array) = {}

\* the sizes after the current one in the size sequence
SizesRemaining ==
    IF size_index < Len(TABLE_SIZES)
    THEN Len(TABLE_SIZES) - 1 - size_index ELSE 0

\* C28: every call returns or raises: the probe walk of a set and of a
\* delete (which is the walk of a get) inspects between 1 and table_size
\* slots, a set ends with no exception, FullError or ValueError, a delete
\* with none, KeyError or FullError, and a set advances size_index at most
\* once per size remaining, and once more only to raise.
Terminates ==
    [][/\ last'.op = "set"
              => /\ hashy_probe(array, last'.key, TRUE).seen
                        \in 1..table_size(array)
                 /\ last'.err \in {"none", "FullError", "ValueError"}
                 /\ size_index' - size_index <= SizesRemaining + 1
                 /\ last'.err = "none"
                        => size_index' - size_index <= SizesRemaining
       /\ last'.op = "delete"
              => /\ hashy_probe(array, last'.key, FALSE).seen
                        \in 1..table_size(array)
                 /\ last'.err \in {"none", "KeyError", "FullError"}]_vars

\* a set has raised FullError out of a walk that inspected every slot, and
\* a set that grew the table twice has returned
TerminatesWitness ==
    \/ /\ last.op = "set" /\ last.err = "FullError" /\ last.slot = "-"
       /\ hashy_probe(array, last.key, TRUE).seen = table_size(array)
       /\ table_size(array) = 3
    \/ /\ last.op = "set" /\ last.err = "none" /\ last.grew
       /\ size_index = 2 /\ hashy_probe(array, last.key, TRUE).seen = 1

\* C29: count is never negative, and is_empty() is true only when no slot
\* is Occupied.
CountNonNegative ==
    /\ count >= 0
    /\ is_empty(Tbl) => Occupied(array) = {}

ReadOps == {"get", "contains", "keys", "values", "len", "is_empty", "is_full"}

\* C30: get, contains, keys, values, len, is_empty and is_full, whether
\* they return or raise, leave the slots, count and the capacity unchanged.
ReadsHaveNoEffect ==
    [][last'.op \in ReadOps
          => UNCHANGED <<array, count, size_index, TABLE_SIZES>>]_vars

\* a get has raised FullError on a table that holds a Tombstone, which it
\* left in place
ReadsHaveNoEffectWitness ==
    /\ last.op = "get" /\ last.err = "FullError"
    /\ Deleted(array) # {}
    /\ getitem(array, last.key).err = "FullError"

\* C31: set, get and delete called with the key of no characters raise an
\* error and leave the slots, count and the capacity unchanged.
EmptyKeyFailsFast ==
    [][(last'.op \in {"set", "get", "delete"} /\ last'.key = <<>>)
          => /\ last'.err # "none"
             /\ UNCHANGED <<array, count, size_index>>]_vars

\* the teams of a game
Playing(game) == {game.home_team, game.away_team}

\* the games of the schedule, by week and position in the week
GameSlots ==
    {<<w, g>> \in (DOMAIN schedule) \X (1..MaxTeams) :
        g \in DOMAIN schedule[w].games}

\* C32: in the schedule of a Season no team plays more than once in any
\* week, every ordered pair (home, away) of distinct teams is exactly one
\* game of the schedule, and each week of the second half holds the games
\* of the corresponding week of the first half with home and away flipped.
ScheduleIsDoubleRoundRobin ==
    season_last.op = "init"
        => /\ \A w \in DOMAIN schedule :
                  \A g, h \in DOMAIN schedule[w].games :
                      g # h => Playing(schedule[w].games[g])
                                   \cap Playing(schedule[w].games[h]) = {}
           /\ \A i, j \in DOMAIN teams :
                  i # j => Cardinality({s \in GameSlots :
                               schedule[s[1]].games[s[2]]
                                   = Game(teams[i], teams[j])}) = 1
           /\ Len(schedule) % 2 = 0
           /\ \A w \in 1..(Len(schedule) \div 2) :
                  LET first == schedule[w].games
                      second == schedule[w + Len(schedule) \div 2].games
                  IN /\ Len(second) = Len(first)
                     /\ \A g \in DOMAIN first :
                            second[g] = Game(first[g].away_team,
                                             first[g].home_team)

\* a Season of MaxTeams teams has its schedule, whose first two weeks hold
\* two games each
ScheduleWitness ==
    /\ season_last.op = "init" /\ Len(teams) = MaxTeams
    /\ Len(schedule) >= 6
    /\ schedule[1].games = <<Game(teams[1], teams[2]),
                             Game(teams[3], teams[4])>>
    /\ schedule[2].games = <<Game(teams[1], teams[3]),
                             Game(teams[2], teams[4])>>

\* the sequence without its element at position pos
Without(seq, pos) ==
    [i \in 1..(Len(seq) - 1) |-> IF i < pos THEN seq[i] ELSE seq[i + 1]]

\* C33: delay_week_of_games(orig, new) with orig in 1..number of weeks and
\* new None or in 1..number of weeks returns with the week formerly at
\* position orig at position new (last when new is None), the other weeks
\* in their relative order and the number of weeks unchanged; with orig or
\* new outside 1..number of weeks it raises ValueError and leaves the
\* schedule unchanged.
DelayMovesWeek ==
    [][season_last'.op = "delay"
          => LET orig == season_last'.orig_week
                 new == season_last'.new_week
                 weeks == Len(schedule)
                 position == IF new.none THEN weeks ELSE new.week
             IN IF orig \in 1..weeks /\ position \in 1..weeks
                THEN /\ season_last'.err = "none"
                     /\ Len(schedule') = weeks
                     /\ schedule'[position] = schedule[orig]
                     /\ Without(schedule', position) = Without(schedule, orig)
                ELSE /\ season_last'.err = "ValueError"
                     /\ schedule' = schedule]_vars

\* the first week of a season of six weeks has been delayed to week 3
DelayWitness ==
    /\ season_last = [op |-> "delay", orig_week |-> 1, new_week |-> Week(3),
                      err |-> "none"]
    /\ Len(schedule) = 6
    /\ [w \in 1..6 |-> schedule[w].week] = <<2, 3, 1, 4, 5, 6>>

TypeOK ==
    /\ TABLE_SIZES \in SizeSeqs \cup GrowSeqs
    /\ size_index \in Nat
    /\ count \in Int
    /\ \A i \in DOMAIN array : array[i].kind \in {"None", "deleted", "item"}

=============================================================================
